---------------------------- MODULE Spec2Model ----------------------------
(***************************************************************************)
(* A model of alive_proxies (src/script/alive_proxies.py): the address     *)
(* codec (get_proxy_url, get_proxy_string), the prober (check_proxy) and   *)
(* the aggregator (main), run by asyncio.run on a single event loop.       *)
(*                                                                         *)
(* Text is modelled as a sequence of one-character strings, so that        *)
(* str.count, str.replace, re.search and urlparse are computed on the      *)
(* characters as the code computes them.  The characters of the model are  *)
(* lower-case letters, digits and ':', '/', '@', '.', none of which is a   *)
(* regular-expression metacharacter except '.', which no template of the   *)
(* model contains.                                                         *)
(***************************************************************************)
EXTENDS Integers, Sequences, FiniteSets, TLC

(***************************************************************************)
(* Bounds of the model.                                                    *)
(***************************************************************************)
\* the longest input file, in lines (file.read().split('\n'))
MaxLines == 2
\* the largest value time.time() - start takes, in clock ticks
MaxLatency == 2

(***************************************************************************)
(* Python values.                                                          *)
(***************************************************************************)
\* Python's None: a value that is no text of the model
None == << "None" >>

\* str(None), and None inside an f-string
NoneText == << "N", "o", "n", "e" >>

\* bool(x) of an optional string: None and '' are false
Truthy(x) == x /= None /\ x /= << >>

\* str(x) inside an f-string, for an optional string
Fmt(x) == IF x = None THEN NoneText ELSE x

(***************************************************************************)
(* str methods.                                                            *)
(***************************************************************************)
\* s[i:i+len(sub)] == sub, i counted from 1
IsPrefixAt(s, sub, i) ==
    /\ i + Len(sub) - 1 <= Len(s)
    /\ \A k \in 1..Len(sub) : s[i + k - 1] = sub[k]

RECURSIVE FindFrom(_, _, _)
\* s.find(sub, i - 1) + 1: the first position >= i where sub occurs, 0 if none
FindFrom(s, sub, i) ==
    IF i + Len(sub) - 1 > Len(s) THEN 0
    ELSE IF IsPrefixAt(s, sub, i) THEN i
    ELSE FindFrom(s, sub, i + 1)

RECURSIVE CountFrom(_, _, _)
CountFrom(s, sub, i) ==
    LET j == FindFrom(s, sub, i)
    IN  IF j = 0 THEN 0 ELSE 1 + CountFrom(s, sub, j + Len(sub))

\* s.count(sub): the non-overlapping occurrences of a non-empty sub
Count(s, sub) == CountFrom(s, sub, 1)

RECURSIVE ReplaceFrom(_, _, _, _)
ReplaceFrom(s, old, new, i) ==
    IF i > Len(s) THEN << >>
    ELSE IF IsPrefixAt(s, old, i)
         THEN new \o ReplaceFrom(s, old, new, i + Len(old))
         ELSE << s[i] >> \o ReplaceFrom(s, old, new, i + 1)

\* s.replace(old, new) for a non-empty old: every occurrence, left to right
Replace(s, old, new) == ReplaceFrom(s, old, new, 1)

\* s[i-1:j] of Python, positions counted from 1, empty when i > j
Slice(s, i, j) == IF i > j THEN << >> ELSE SubSeq(s, i, j)

RECURSIVE RFind(_, _, _)
\* the last position <= i of the character c in s, 0 if none
RFind(s, c, i) ==
    IF i < 1 THEN 0 ELSE IF s[i] = c THEN i ELSE RFind(s, c, i - 1)

UpperCase == << "A", "B", "C", "D", "E", "F", "G", "H", "I", "J", "K", "L", "M",
                "N", "O", "P", "Q", "R", "S", "T", "U", "V", "W", "X", "Y", "Z" >>
LowerCase == << "a", "b", "c", "d", "e", "f", "g", "h", "i", "j", "k", "l", "m",
                "n", "o", "p", "q", "r", "s", "t", "u", "v", "w", "x", "y", "z" >>
DigitChars == << "0", "1", "2", "3", "4", "5", "6", "7", "8", "9" >>

Range(f) == { f[i] : i \in DOMAIN f }

\* c.lower()
LowerChar(c) ==
    IF c \in Range(UpperCase)
    THEN LowerCase[CHOOSE k \in 1..26 : UpperCase[k] = c]
    ELSE c

\* s.lower()
Lower(s) == [ i \in 1..Len(s) |-> LowerChar(s[i]) ]

\* s.isdigit() and s.isascii()
IsDigits(s) == Len(s) > 0 /\ \A i \in 1..Len(s) : s[i] \in Range(DigitChars)

DigitVal(c) == (CHOOSE k \in 1..10 : DigitChars[k] = c) - 1

RECURSIVE ParseInt(_, _)
\* int(s) of a string of digits: ParseInt(s, Len(s))
ParseInt(s, n) ==
    IF n = 0 THEN 0 ELSE 10 * ParseInt(s, n - 1) + DigitVal(s[n])

RECURSIVE IntText(_)
\* str(n) of a natural number
IntText(n) ==
    IF n < 10 THEN << DigitChars[n + 1] >>
    ELSE IntText(n \div 10) \o << DigitChars[(n % 10) + 1] >>


(***************************************************************************)
(* The address codec: decode (get_proxy_url).                              *)
(***************************************************************************)
\* URL_PARTS, the placeholder names in the order the code visits them
URL_PARTS == << "protocol", "ip", "port", "username", "password" >>

\* the text of a placeholder name
PartText(part) ==
    CASE part = "protocol" -> << "p", "r", "o", "t", "o", "c", "o", "l" >>
      [] part = "ip"       -> << "i", "p" >>
      [] part = "port"     -> << "p", "o", "r", "t" >>
      [] part = "username" -> << "u", "s", "e", "r", "n", "a", "m", "e" >>
      [] part = "password" -> << "p", "a", "s", "s", "w", "o", "r", "d" >>

\* regex_template_base.format(url_part): the named group, kept as one element
\* of the pattern (its text holds no placeholder name, so no later
\* replacement touches it)
GroupToken(part) ==
    CASE part = "protocol" -> "(?P<protocol>.*)"
      [] part = "ip"       -> "(?P<ip>.*)"
      [] part = "port"     -> "(?P<port>.*)"
      [] part = "username" -> "(?P<username>.*)"
      [] part = "password" -> "(?P<password>.*)"

GroupTokens == { GroupToken(URL_PARTS[k]) : k \in 1..5 }

\* the placeholder a group element names
GroupPart(tok) == CHOOSE part \in Range(URL_PARTS) : GroupToken(part) = tok

RECURSIVE BuildRegex(_, _)
\* the loop over URL_PARTS from part k on: each placeholder that occurs is
\* replaced, everywhere, by its named group
BuildRegex(regex_template, k) ==
    IF k > Len(URL_PARTS) THEN regex_template
    ELSE LET url_part == URL_PARTS[k]
         IN  BuildRegex(
                 IF Count(regex_template, PartText(url_part)) > 0
                 THEN Replace(regex_template, PartText(url_part),
                              << GroupToken(url_part) >>)
                 ELSE regex_template,
                 k + 1)

\* the pattern re.search is given for a template
RegexTemplate(template) == BuildRegex(template, 1)

\* re.compile refuses a pattern that defines a group name twice
RegexCompiles(re) ==
    \A i, j \in 1..Len(re) : (re[i] \in GroupTokens /\ re[i] = re[j]) => i = j

\* no group captured anything
NoGroups == [ part \in Range(URL_PARTS) |-> None ]

NoMatch == [ ok |-> FALSE, groups |-> NoGroups ]

RECURSIVE MatchFrom(_, _, _, _)
\* the backtracking match of the pattern's elements k.. against s after its
\* first p characters: a literal matches itself, a group '.*' takes the longest
\* run of characters after which the rest of the pattern still matches
MatchFrom(re, k, s, p) ==
    IF k > Len(re) THEN [ ok |-> TRUE, groups |-> NoGroups ]
    ELSE IF re[k] \in GroupTokens
    THEN LET ends == { e \in p..Len(s) : MatchFrom(re, k + 1, s, e).ok }
         IN  IF ends = {} THEN NoMatch
             ELSE LET e == CHOOSE x \in ends : \A y \in ends : y <= x
                      rest == MatchFrom(re, k + 1, s, e)
                  IN  [ ok |-> TRUE,
                        groups |-> [ rest.groups EXCEPT
                                       ![GroupPart(re[k])] = Slice(s, p + 1, e) ] ]
    ELSE IF p < Len(s) /\ s[p + 1] = re[k]
         THEN MatchFrom(re, k + 1, s, p + 1)
         ELSE NoMatch

\* re.search(re, s): the match at the leftmost position where one exists;
\* groups is regex.groupdict(), None for a group the pattern does not have
Search(re, s) ==
    LET starts == { p \in 0..Len(s) : MatchFrom(re, 1, s, p).ok }
    IN  IF starts = {} THEN NoMatch
        ELSE MatchFrom(re, 1, s, CHOOSE x \in starts : \A y \in starts : x <= y)

\* a raised exception, as the result of a function
Raised(exc) == [ ok |-> FALSE, exc |-> exc, value |-> None ]

\* a returned value
Returned(v) == [ ok |-> TRUE, exc |-> "", value |-> v ]

\* the assert of get_proxy_url compiled away
TemplateAssert_Off(template) == TRUE

\* the assert of get_proxy_url
TemplateAssert(template) ==
    Count(template, PartText("ip")) > 0 /\ Count(template, PartText("port")) > 0

\* get_proxy_url(proxy, template, default_protocol)
get_proxy_url(proxy, template, default_protocol) ==
    IF ~TemplateAssert(template) THEN Raised("AssertionError")
    ELSE LET regex_template == RegexTemplate(template)
         IN  IF ~RegexCompiles(regex_template) THEN Raised("re.error")
             ELSE LET regex == Search(regex_template, proxy)
                  IN  IF ~regex.ok THEN Raised("ValueError")
                      ELSE LET g == regex.groups
                               \* prts.setdefault('protocol', default_protocol)
                               protocol == IF g["protocol"] /= None
                                           THEN g["protocol"]
                                           ELSE default_protocol
                           IN  IF ~Truthy(protocol) THEN Raised("ValueError")
                               ELSE IF Truthy(g["username"]) /\ Truthy(g["password"])
                               THEN Returned(Fmt(protocol) \o << ":", "/", "/" >>
                                             \o Fmt(g["username"]) \o << ":" >>
                                             \o Fmt(g["password"]) \o << "@" >>
                                             \o Fmt(g["ip"]) \o << ":" >>
                                             \o Fmt(g["port"]))
                               ELSE Returned(Fmt(protocol) \o << ":", "/", "/" >>
                                             \o Fmt(g["ip"]) \o << ":" >>
                                             \o Fmt(g["port"]))

(***************************************************************************)
(* urllib.parse.urlparse, as far as the code reads its result.             *)
(***************************************************************************)
\* scheme_chars of urllib.parse
SchemeChars ==
    Range(LowerCase) \cup Range(UpperCase) \cup Range(DigitChars) \cup { "+", "-", "." }

\* the scheme urlsplit finds and the text after it
SplitScheme(url) ==
    LET i == FindFrom(url, << ":" >>, 1)
    IN  IF /\ i > 1
           /\ url[1] \in Range(LowerCase) \cup Range(UpperCase)
           /\ \A k \in 1..(i - 1) : url[k] \in SchemeChars
        THEN [ scheme |-> Lower(SubSeq(url, 1, i - 1)),
               rest |-> Slice(url, i + 1, Len(url)) ]
        ELSE [ scheme |-> << >>, rest |-> url ]

\* _splitnetloc(url, 2): the authority runs to the first of '/', '?', '#'
SplitNetloc(rest) ==
    IF ~IsPrefixAt(rest, << "/", "/" >>, 1) THEN << >>
    ELSE LET stops == { i \in 3..Len(rest) : rest[i] \in { "/", "?", "#" } }
             delim == IF stops = {} THEN Len(rest) + 1
                      ELSE CHOOSE x \in stops : \A y \in stops : x <= y
         IN  Slice(rest, 3, delim - 1)

\* urlparse(url): the scheme and the netloc
urlparse(url) ==
    LET sp == SplitScheme(url)
    IN  [ scheme |-> sp.scheme, netloc |-> SplitNetloc(sp.rest) ]

\* netloc.rpartition('@'): userinfo (None without '@') and hostinfo
UserHost(netloc) ==
    LET at == RFind(netloc, "@", Len(netloc))
    IN  IF at = 0 THEN [ userinfo |-> None, hostinfo |-> netloc ]
        ELSE [ userinfo |-> Slice(netloc, 1, at - 1),
               hostinfo |-> Slice(netloc, at + 1, Len(netloc)) ]

\* .username
UrlUsername(netloc) ==
    LET userinfo == UserHost(netloc).userinfo
        colon == FindFrom(userinfo, << ":" >>, 1)
    IN  IF userinfo = None THEN None
        ELSE IF colon = 0 THEN userinfo ELSE Slice(userinfo, 1, colon - 1)

\* .password
UrlPassword(netloc) ==
    LET userinfo == UserHost(netloc).userinfo
        colon == FindFrom(userinfo, << ":" >>, 1)
    IN  IF userinfo = None THEN None
        ELSE IF colon = 0 THEN None ELSE Slice(userinfo, colon + 1, Len(userinfo))

\* .hostname: lower-cased, None when empty
UrlHostname(netloc) ==
    LET hostinfo == UserHost(netloc).hostinfo
        colon == FindFrom(hostinfo, << ":" >>, 1)
        hostname == IF colon = 0 THEN hostinfo ELSE Slice(hostinfo, 1, colon - 1)
    IN  IF hostname = << >> THEN None ELSE Lower(hostname)

\* _hostinfo[1]: the text after the first ':' of hostinfo, None when empty
PortField(netloc) ==
    LET hostinfo == UserHost(netloc).hostinfo
        colon == FindFrom(hostinfo, << ":" >>, 1)
        port == IF colon = 0 THEN << >> ELSE Slice(hostinfo, colon + 1, Len(hostinfo))
    IN  IF port = << >> THEN None ELSE port

\* str(.port): .port is int(port), None when there is none, and raises
\* ValueError when port is no number or is out of range
UrlPortText(netloc) ==
    LET port == PortField(netloc)
    IN  IF port = None THEN Returned(NoneText)
        ELSE IF ~IsDigits(port) THEN Raised("ValueError")
        ELSE IF ParseInt(port, Len(port)) > 65535 THEN Raised("ValueError")
        ELSE Returned(IntText(ParseInt(port, Len(port))))

(***************************************************************************)
(* The address codec: encode (get_proxy_string).                           *)
(***************************************************************************)
\* the keys of the dict prts of get_proxy_string, in its order
StringParts == << "protocol", "username", "password", "ip", "port" >>

RECURSIVE Substitute(_, _, _)
\* the loop over prts.items() from item k on: str.replace raises TypeError
\* when the value is None
Substitute(template, prts, k) ==
    IF k > Len(StringParts) THEN Returned(template)
    ELSE LET template_prt == StringParts[k]
             url_prt == prts[template_prt]
         IN  IF url_prt = None THEN Raised("TypeError")
             ELSE Substitute(Replace(template, PartText(template_prt), url_prt),
                             prts, k + 1)

\* get_proxy_string(proxy, template)
get_proxy_string(proxy, template) ==
    LET u == urlparse(proxy)
        port == UrlPortText(u.netloc)
    IN  IF ~port.ok THEN port
        ELSE Substitute(template,
                        [ part \in Range(StringParts) |->
                            CASE part = "protocol" -> u.scheme
                              [] part = "username" -> UrlUsername(u.netloc)
                              [] part = "password" -> UrlPassword(u.netloc)
                              [] part = "ip"       -> UrlHostname(u.netloc)
                              [] part = "port"     -> port.value ],
                        1)

(***************************************************************************)
(* The inputs of the model: the arguments of main and the input file.      *)
(***************************************************************************)
\* 'ip:port'
T_ip_port == PartText("ip") \o << ":" >> \o PartText("port")

\* 'protocol://ip:port'
T_protocol_ip_port == PartText("protocol") \o << ":", "/", "/" >> \o T_ip_port

\* --read: no template, two well-formed templates, and one without 'port'
ReadTemplates == { None, T_ip_port, T_protocol_ip_port, PartText("ip") }

\* --write
WriteTemplates == { None, T_ip_port }

\* --protocol
DefaultProtocols == { None, << "h", "t", "t", "p" >> }

\* the lines an input file is made of: the empty line, 'a:80', 'http://a:80'
\* and 'http://u:p@a:80'
RawLines ==
    { << >>,
      << "a", ":", "8", "0" >>,
      << "h", "t", "t", "p", ":", "/", "/", "a", ":", "8", "0" >>,
      << "h", "t", "t", "p", ":", "/", "/", "u", ":", "p", "@", "a", ":", "8", "0" >> }

\* RawLines in a fixed order
RawLineSeq == CHOOSE f \in [ 1..Cardinality(RawLines) -> RawLines ] : Range(f) = RawLines

\* file.read().split('\n') of the input files of the model: split returns at
\* least one line.  main reads the list only through set(), so the order of
\* the lines is no input of the program, and the files are taken up to that
\* order: every choice of 1..MaxLines lines, repeated lines included
InputFiles ==
    { [ k \in DOMAIN f |-> RawLineSeq[f[k]] ] :
        f \in { g \in UNION { [ 1..n -> 1..Cardinality(RawLines) ] : n \in 1..MaxLines } :
                  \A k \in 1..(Len(g) - 1) : g[k] <= g[k + 1] } }

(***************************************************************************)
(* The exceptions of a probe.                                              *)
(***************************************************************************)
\* the except clause of check_proxy
CaughtExceptions ==
    { "ProxyConnectionError", "ConnectionResetError", "ProxyError",
      "ProxyTimeoutError", "IncompleteReadError", "TimeoutError",
      "ServerDisconnectedError", "SSLError" }

\* an exception of session.get that the except clause does not name
OtherExceptions == { "ClientOSError" }

\* what session.get can raise
RequestExceptions == CaughtExceptions \cup OtherExceptions

\* the network failures a probe is to survive: proxy connection refusal or
\* reset, proxy protocol error, proxy timeout, request timeout, incomplete
\* read, server disconnect, TLS error
EnumeratedFailures ==
    { "ProxyConnectionError", "ConnectionResetError", "ProxyError",
      "ProxyTimeoutError", "TimeoutError", "IncompleteReadError",
      "ServerDisconnectedError", "SSLError" }

\* the kind of an exception raised inside a probe
FailureKind(exc) == IF exc \in EnumeratedFailures THEN "network" ELSE "other"

(***************************************************************************)
(* The state.                                                              *)
(***************************************************************************)
VARIABLES
    cfg,            \* the arguments of main
    inputFile,      \* the lines of the file at proxies_file_path
    inputWritten,   \* whether main has opened that file for writing
    outputFile,     \* the lines of the file at alive_proxies_file_path,
                    \* None while main has not opened it
    pc,             \* where main is: "start", "loop", "gather", "done", "failed"
    proxies,        \* the set main read
    iterated,       \* the lines the for loop has taken from the set, in order
    tasks,          \* the tasks created, in the order of creation
    results,        \* what the gather returned
    sorted_alive_proxies,   \* the ranked outcomes, before encoding
    error,          \* the exception main ended with, and where it was raised
    closed,         \* whether asyncio.run has cancelled what was left and returned
    finished,       \* history: the tasks that returned or raised, in that order
    call            \* a call of get_proxy_url and get_proxy_string made on its
                    \* own, outside a run of main: its arguments and results

vars == << cfg, inputFile, inputWritten, outputFile, pc, proxies, iterated,
           tasks, results, sorted_alive_proxies, error, closed, finished, call >>

\* a result that stands for a function not called yet
NotCalled == [ ok |-> FALSE, exc |-> "not called", value |-> None ]

\* no call outside main
NoCall ==
    [ proxy |-> << >>, template |-> None, default_protocol |-> None, step |-> "none",
      url |-> NotCalled, string |-> NotCalled, again |-> NotCalled ]

NoError == [ exc |-> "", where |-> "" ]

\* a task asyncio.create_task has just made of check_proxy(proxy, ...).
\* state, response_time and exc are the task's: where it is, the time it
\* returned (0 until then) and the exception it ended with.  raw, alive and
\* failure are history: the line the task was made for, whether its request
\* got a response, and the kind of exception raised inside it ("network",
\* "other", "" for none).  session is the ClientSession of the task, with the
\* connector it owns: "none" before it is made, then "open", then "closed"
NewTask(raw, proxy) ==
    [ raw |-> raw, proxy |-> proxy, state |-> "pending",
      response_time |-> 0, exc |-> "", alive |-> FALSE, failure |-> "",
      session |-> "none" ]

Init ==
    /\ cfg \in [ read_template : ReadTemplates,
                 write_template : WriteTemplates,
                 default_protocol : DefaultProtocols,
                 remove_duplicates : BOOLEAN ]
    /\ inputFile \in InputFiles
    /\ inputWritten = FALSE
    /\ outputFile = None
    /\ pc = "start"
    /\ proxies = {}
    /\ iterated = << >>
    /\ tasks = << >>
    /\ results = << >>
    /\ sorted_alive_proxies = << >>
    /\ error = NoError
    /\ closed = FALSE
    /\ finished = << >>
    /\ call = NoCall

(***************************************************************************)
(* main, up to the gather.                                                 *)
(***************************************************************************)
\* main ends with an exception
MainRaises(exc, where) ==
    /\ pc' = "failed"
    /\ error' = [ exc |-> exc, where |-> where ]

\* set(proxies_file.read().split('\n'))
ReadInput ==
    /\ pc = "start"
    /\ proxies' = Range(inputFile)
    /\ pc' = "loop"
    /\ UNCHANGED << call, cfg, inputFile, inputWritten, outputFile, iterated, tasks,
                    results, sorted_alive_proxies, error, closed, finished >>

\* the check main makes of a line when there is no read template
CheckUrl(proxy) ==
    LET url_prts == urlparse(proxy)
    IN  IF url_prts.scheme = << >> /\ url_prts.netloc = << >>
        THEN Raised("ValueError")
        ELSE Returned(proxy)

\* the body of the for loop up to create_task: the proxy url of a line
DecodeLine(proxy, read_template, default_protocol) ==
    IF Truthy(read_template)
    THEN get_proxy_url(proxy, read_template, default_protocol)
    ELSE CheckUrl(proxy)

\* an iteration that can yield an element again
Remaining_Repeats(ps, yielded) == IF Len(yielded) > Cardinality(ps) THEN {} ELSE ps

\* the elements a set has not yielded yet to the loop that iterates it
Remaining(ps, yielded) == ps \ Range(yielded)

\* a for loop that skips a line it cannot decode
LoopStep_Skip ==
    /\ pc = "loop"
    /\ \E proxy \in Remaining(proxies, iterated) :
         LET r == DecodeLine(proxy, cfg.read_template, cfg.default_protocol)
         IN  /\ iterated' = Append(iterated, proxy)
             /\ tasks' = IF r.ok THEN Append(tasks, NewTask(proxy, r.value)) ELSE tasks
             /\ pc' = IF Remaining(proxies, iterated') = {} THEN "gather" ELSE "loop"
    /\ UNCHANGED << call, cfg, inputFile, inputWritten, outputFile, proxies,
                    results, sorted_alive_proxies, error, closed, finished >>

\* one iteration of the for loop, on any line the set has not yielded yet (a
\* set yields its elements in an order the program does not choose); after the
\* last one main awaits the gather
LoopStep ==
    /\ pc = "loop"
    /\ \E proxy \in Remaining(proxies, iterated) :
         LET r == DecodeLine(proxy, cfg.read_template, cfg.default_protocol)
         IN  /\ iterated' = Append(iterated, proxy)
             /\ IF r.ok
                THEN /\ tasks' = Append(tasks, NewTask(proxy, r.value))
                     /\ pc' = IF Remaining(proxies, iterated') = {} THEN "gather" ELSE "loop"
                     /\ error' = error
                ELSE /\ MainRaises(r.exc, "loop")
                     /\ tasks' = tasks
    /\ UNCHANGED << call, cfg, inputFile, inputWritten, outputFile, proxies,
                    results, sorted_alive_proxies, closed, finished >>

(***************************************************************************)
(* check_proxy.                                                            *)
(***************************************************************************)
\* an event loop that runs the tasks while main is still in the for loop, as
\* it would if the loop awaited
LoopRuns_InLoop == ~closed /\ pc \in { "loop", "gather", "failed" }

\* the event loop runs a task's step: while main waits in the gather, and,
\* once main has ended, until asyncio.run cancels the tasks
LoopRuns == ~closed /\ pc \in { "gather", "failed" }

\* a request can complete while main waits in the gather or is being woken
\* by it
RequestsComplete == ~closed /\ (pc = "gather" \/ (pc = "failed" /\ error.where = "gather"))

\* the schemes ProxyConnector.from_url knows
ProxySchemes ==
    { << "s", "o", "c", "k", "s", "5" >>, << "s", "o", "c", "k", "s", "4" >>,
      << "h", "t", "t", "p" >> }

\* ProxyConnector.from_url(proxy_url) returns a connector: it parses the url
\* with urlparse and raises ValueError unless the scheme is one it knows,
\* there is a host, and there is a port that is a number
FromUrlAccepts(proxy_url) ==
    LET u == urlparse(proxy_url)
    IN  /\ u.scheme \in ProxySchemes
        /\ UrlHostname(u.netloc) /= None
        /\ PortField(u.netloc) /= None
        /\ UrlPortText(u.netloc).ok

\* the first step of a task, up to its first suspension: from_url raises
\* ValueError, or the session is opened and the request issued
TaskStart(i) ==
    /\ LoopRuns
    /\ tasks[i].state = "pending"
    /\ \/ /\ ~FromUrlAccepts(tasks[i].proxy)
          /\ tasks' = [ tasks EXCEPT ![i].state = "raised", ![i].exc = "ValueError",
                                      ![i].failure = FailureKind("ValueError") ]
          /\ finished' = Append(finished, i)
       \/ /\ FromUrlAccepts(tasks[i].proxy)
          /\ tasks' = [ tasks EXCEPT ![i].state = "requesting", ![i].session = "open" ]
          /\ finished' = finished
    /\ UNCHANGED << call, cfg, inputFile, inputWritten, outputFile, pc, proxies, iterated,
                    results, sorted_alive_proxies, error, closed >>

\* a session closed by a call at the end of check_proxy, not by a with block
SessionExit_CloseAtEnd(how) == IF how = "alive" THEN "closed" ELSE "open"

\* async with ClientSession(...) as session: the session after the block is
\* left, by the return of an alive or dead proxy, by an exception that is
\* not caught, or by the cancellation of the task
SessionExit(how) == "closed"

\* an except clause that catches every exception
IsCaught_All(exc) == TRUE

\* an except clause without TimeoutError
IsCaught_NoTimeout(exc) == exc \in CaughtExceptions \ { "TimeoutError" }

\* except (...): whether the except clause of check_proxy handles exc
IsCaught(exc) == exc \in CaughtExceptions

\* the task after session.get raised exc
AfterException(t, exc) ==
    IF IsCaught(exc)
    THEN [ t EXCEPT !.state = "done", !.response_time = 0, !.failure = FailureKind(exc),
                    !.session = SessionExit("dead") ]
    ELSE [ t EXCEPT !.state = "raised", !.exc = exc, !.failure = FailureKind(exc),
                    !.session = SessionExit("raise") ]

\* the task after session.get returned, response_time after start
AfterResponse(t, response_time) ==
    [ t EXCEPT !.state = "done", !.response_time = response_time, !.alive = TRUE,
               !.session = SessionExit("alive") ]

\* the request of a task ends: with a response, or with an exception
TaskResolve(i) ==
    /\ RequestsComplete
    /\ tasks[i].state = "requesting"
    /\ \/ \E response_time \in 0..MaxLatency :
            tasks' = [ tasks EXCEPT ![i] = AfterResponse(tasks[i], response_time) ]
       \/ \E exc \in RequestExceptions :
            tasks' = [ tasks EXCEPT ![i] = AfterException(tasks[i], exc) ]
    /\ finished' = Append(finished, i)
    /\ UNCHANGED << call, cfg, inputFile, inputWritten, outputFile, pc, proxies, iterated,
                    results, sorted_alive_proxies, error, closed >>

(***************************************************************************)
(* main, from the gather on.                                               *)
(***************************************************************************)
\* a wait that returns once any task has returned
AllReturned_Any(ts) == \E i \in DOMAIN ts : ts[i].state = "done"

\* asyncio.gather(*tasks) returns once every task has returned
AllReturned(ts) == \A i \in DOMAIN ts : ts[i].state = "done"

\* the gather's result: one (proxy, response_time) per task, in the order of
\* the tasks; task names the task a pair comes from
GatherResults(ts) ==
    [ i \in DOMAIN ts |->
        [ proxy |-> ts[i].proxy, response_time |-> ts[i].response_time, task |-> i ] ]

\* a filter that keeps a response time of 0
IsAliveResult_Zero(r) == r.response_time >= 0

\* the filter of alive_proxies
IsAliveResult(r) == r.response_time > 0

\* a sort that puts x before the elements of equal key
InsertPosition_Unstable(s, x) ==
    LET notless == { j \in 1..Len(s) : s[j].response_time >= x.response_time }
    IN  IF notless = {} THEN Len(s) + 1
        ELSE CHOOSE j \in notless : \A k \in notless : j <= k

\* where sorted() puts x among the already sorted s: after every element
\* whose key is not greater (the sort is stable)
InsertPosition(s, x) ==
    LET greater == { j \in 1..Len(s) : s[j].response_time > x.response_time }
    IN  IF greater = {} THEN Len(s) + 1
        ELSE CHOOSE j \in greater : \A k \in greater : j <= k

RECURSIVE SortedByTime(_)
\* sorted(alive_proxies, key=lambda x: x[1])
SortedByTime(s) ==
    IF s = << >> THEN << >>
    ELSE LET front == SortedByTime(SubSeq(s, 1, Len(s) - 1))
             x == s[Len(s)]
             at == InsertPosition(front, x)
         IN  SubSeq(front, 1, at - 1) \o << x >> \o SubSeq(front, at, Len(front))

\* a choice that prefers the read template
OutputTemplate_ReadFirst(c) ==
    IF Truthy(c.read_template) THEN c.read_template ELSE c.write_template

\* template = write_template or read_template
OutputTemplate(c) ==
    IF Truthy(c.write_template) THEN c.write_template ELSE c.read_template

\* the encoding of one ranked proxy for the output file
EncodeLine(proxy, template) ==
    IF Truthy(template) THEN get_proxy_string(proxy, template) ELSE Returned(proxy)

\* a main that writes the input file back whatever the flag
RewritesInput_Always(c) == TRUE

\* if remove_duplicates: whether main writes the input file back
RewritesInput(c) == c.remove_duplicates

\* the gather raises the exception of a task that raised
GatherRaise ==
    /\ pc = "gather"
    /\ \E i \in DOMAIN tasks :
         /\ tasks[i].state = "raised"
         /\ MainRaises(tasks[i].exc, "gather")
    /\ UNCHANGED << call, cfg, inputFile, inputWritten, outputFile, proxies, iterated,
                    tasks, results, sorted_alive_proxies, closed, finished >>

\* the gather returns and main runs to its end: filter, sort, encode, write
\* the output file and, with remove_duplicates, the input file
GatherReturn ==
    /\ pc = "gather"
    /\ AllReturned(tasks)
    /\ LET alive_proxies == SelectSeq(GatherResults(tasks), IsAliveResult)
           ranked == SortedByTime(alive_proxies)
           template == OutputTemplate(cfg)
           encoded == [ k \in 1..Len(ranked) |-> EncodeLine(ranked[k].proxy, template) ]
           failed == { k \in 1..Len(ranked) : ~encoded[k].ok }
       IN  /\ results' = GatherResults(tasks)
           /\ sorted_alive_proxies' = ranked
           /\ IF failed /= {}
              THEN /\ MainRaises(encoded[CHOOSE k \in failed : \A j \in failed : k <= j].exc,
                                 "persist")
                   /\ UNCHANGED << outputFile, inputFile, inputWritten >>
              ELSE /\ outputFile' = [ k \in 1..Len(ranked) |-> encoded[k].value ]
                   /\ inputWritten' = RewritesInput(cfg)
                   /\ inputFile' = IF RewritesInput(cfg) THEN iterated ELSE inputFile
                   /\ pc' = "done"
                   /\ error' = error
    /\ UNCHANGED << call, cfg, proxies, iterated, tasks, closed, finished >>

\* asyncio.run ends: main has ended, every task has had its first step, and
\* the tasks still waiting are cancelled
Shutdown ==
    /\ pc \in { "done", "failed" }
    /\ ~closed
    /\ \A i \in DOMAIN tasks : tasks[i].state /= "pending"
    /\ tasks' = [ i \in DOMAIN tasks |->
                    IF tasks[i].state = "requesting"
                    THEN [ tasks[i] EXCEPT !.state = "cancelled",
                                           !.session = SessionExit("cancel") ]
                    ELSE tasks[i] ]
    /\ closed' = TRUE
    /\ UNCHANGED << call, cfg, inputFile, inputWritten, outputFile, pc, proxies, iterated,
                    results, sorted_alive_proxies, error, finished >>

Next ==
    \/ ReadInput
    \/ LoopStep
    \/ \E i \in DOMAIN tasks : TaskStart(i)
    \/ \E i \in DOMAIN tasks : TaskResolve(i)
    \/ GatherRaise
    \/ GatherReturn
    \/ Shutdown

Spec == Init /\ [][Next]_vars

(***************************************************************************)
(* get_proxy_url and get_proxy_string called on their own: a line is       *)
(* decoded with a template, the url is encoded with the same template, and *)
(* the string is decoded again.                                            *)
(***************************************************************************)
\* 'protocol://username:password@ip:port'
T_full ==
    PartText("protocol") \o << ":", "/", "/" >> \o PartText("username") \o << ":" >>
        \o PartText("password") \o << "@" >> \o T_ip_port

\* 'ipport': both required parts and no other character
T_ipport == PartText("ip") \o PartText("port")

\* the templates of the calls: each has 'ip' and 'port' once
CallTemplates == { T_ip_port, T_protocol_ip_port, T_full, T_ipport }

\* the lines of the calls: those of the input files, a line whose protocol
\* is empty, and a line whose host and port urlparse normalises
CallLines ==
    RawLines \cup { << ":", "/", "/", "a", ":", "8", "0" >>,
                    << "A", ":", "0", "8", "0" >> }

\* the variables of main
mainVars == << cfg, inputFile, inputWritten, outputFile, pc, proxies, iterated,
               tasks, results, sorted_alive_proxies, error, closed, finished >>

CallInit ==
    /\ call \in [ proxy : CallLines, template : CallTemplates,
                   default_protocol : DefaultProtocols, step : { "decode" },
                   url : { NotCalled }, string : { NotCalled }, again : { NotCalled } ]
    /\ cfg = [ read_template |-> None, write_template |-> None,
               default_protocol |-> None, remove_duplicates |-> FALSE ]
    /\ inputFile = << << >> >>
    /\ inputWritten = FALSE
    /\ outputFile = None
    /\ pc = "start"
    /\ proxies = {}
    /\ iterated = << >>
    /\ tasks = << >>
    /\ results = << >>
    /\ sorted_alive_proxies = << >>
    /\ error = NoError
    /\ closed = FALSE
    /\ finished = << >>

\* url = get_proxy_url(proxy, template, default_protocol)
Call_get_proxy_url ==
    /\ call.step = "decode"
    /\ LET r == get_proxy_url(call.proxy, call.template, call.default_protocol)
       IN  call' = [ call EXCEPT !.url = r, !.step = IF r.ok THEN "encode" ELSE "end" ]
    /\ UNCHANGED mainVars

\* string = get_proxy_string(url, template)
Call_get_proxy_string ==
    /\ call.step = "encode"
    /\ LET r == get_proxy_string(call.url.value, call.template)
       IN  call' = [ call EXCEPT !.string = r, !.step = IF r.ok THEN "again" ELSE "end" ]
    /\ UNCHANGED mainVars

\* again = get_proxy_url(string, template, default_protocol)
Call_get_proxy_url_again ==
    /\ call.step = "again"
    /\ call' = [ call EXCEPT
                   !.again = get_proxy_url(call.string.value, call.template,
                                           call.default_protocol),
                   !.step = "end" ]
    /\ UNCHANGED mainVars

CallNext ==
    \/ Call_get_proxy_url
    \/ Call_get_proxy_string
    \/ Call_get_proxy_url_again

CallSpec == CallInit /\ [][CallNext]_vars

(***************************************************************************)
(* main on an input file whose lines name a user and no password: the      *)
(* template 'username@ip:port' with lines 'x@a:80' and 'y@a:80'.           *)
(***************************************************************************)
\* 'username@ip:port'
T_username_ip_port == PartText("username") \o << "@" >> \o T_ip_port

\* 'x@a:80' and 'y@a:80'
UserLines ==
    { << "x", "@", "a", ":", "8", "0" >>, << "y", "@", "a", ":", "8", "0" >> }

\* file.read().split('\n') of the files of 1..MaxLines of these lines
UserInputFiles == UNION { [ 1..n -> UserLines ] : n \in 1..MaxLines }

UserInit ==
    /\ cfg \in [ read_template : { T_username_ip_port },
                 write_template : { None },
                 default_protocol : { << "h", "t", "t", "p" >> },
                 remove_duplicates : BOOLEAN ]
    /\ inputFile \in UserInputFiles
    /\ inputWritten = FALSE
    /\ outputFile = None
    /\ pc = "start"
    /\ proxies = {}
    /\ iterated = << >>
    /\ tasks = << >>
    /\ results = << >>
    /\ sorted_alive_proxies = << >>
    /\ error = NoError
    /\ closed = FALSE
    /\ finished = << >>
    /\ call = NoCall

UserSpec == UserInit /\ [][Next]_vars

(***************************************************************************)
(* Properties.                                                             *)
(***************************************************************************)
\* the tasks whose request got a response
AliveTasks == { i \in DOMAIN tasks : tasks[i].alive }

\* the tasks whose request ended with an enumerated network failure
DeadTasks == { i \in DOMAIN tasks : tasks[i].failure = "network" }

\* the tasks of the ranked list
RankedTasks == { sorted_alive_proxies[k].task : k \in DOMAIN sorted_alive_proxies }

\* C1: the ranked list never holds a proxy whose probe was dead, its
\* latencies are non-decreasing from first to last, and the output file has
\* one line per ranked proxy, in that order.
C1_RankedAliveAndSorted ==
    /\ \A k \in DOMAIN sorted_alive_proxies :
         /\ sorted_alive_proxies[k].task \notin DeadTasks
         /\ sorted_alive_proxies[k].task \in AliveTasks
         /\ sorted_alive_proxies[k].response_time
              = tasks[sorted_alive_proxies[k].task].response_time
    /\ \A k, j \in DOMAIN sorted_alive_proxies :
         k < j => sorted_alive_proxies[k].response_time
                    <= sorted_alive_proxies[j].response_time
    /\ outputFile /= None =>
         /\ Len(outputFile) = Len(sorted_alive_proxies)
         /\ ~Truthy(OutputTemplate(cfg)) =>
              \A k \in DOMAIN outputFile : outputFile[k] = sorted_alive_proxies[k].proxy

\* C1 witness: the output was written with two proxies, the second task
\* first because it was the faster.
C1_Witness ==
    /\ pc = "done"
    /\ Len(outputFile) = 2
    /\ sorted_alive_proxies[1].task = 2
    /\ sorted_alive_proxies[1].response_time < sorted_alive_proxies[2].response_time

\* C2: once the run is done, every probe that got a response is in the
\* ranked output, whatever its latency.
C2_SucceededProbeRanked ==
    pc = "done" => AliveTasks \subseteq RankedTasks

\* C3: the output file is written, and the outcomes filtered and sorted,
\* only when every task dispatched has returned, and every line of the input
\* had a task dispatched.
C3_GatherIsBarrier ==
    (outputFile /= None \/ results /= << >> \/ sorted_alive_proxies /= << >>
        \/ pc = "done") =>
      /\ \A i \in DOMAIN tasks : tasks[i].state = "done"
      /\ Len(results) = Len(tasks)
      /\ Len(tasks) = Cardinality(proxies)

\* C3 witness: the output was written after two probes, one alive and one
\* dead, the dead one the last to resolve.
C3_Witness ==
    /\ outputFile /= None
    /\ Len(tasks) = 2
    /\ tasks[1].alive /\ tasks[1].response_time > 0
    /\ 2 \in DeadTasks
    /\ finished = << 1, 2 >>

\* C4: a step in which a probe resolves as dead changes nothing of any
\* other task and does not end main; and a task is cancelled only after main
\* failed in the loop or some probe raised an error that is no network
\* failure, never because a sibling was dead.
C4_ProbesIndependent ==
    /\ [][ \A i \in DOMAIN tasks :
             (tasks[i].state = "requesting" /\ i \in DOMAIN tasks'
                /\ tasks'[i].failure = "network")
             => /\ DOMAIN tasks' = DOMAIN tasks
                /\ \A j \in DOMAIN tasks \ { i } : tasks'[j] = tasks[j]
                /\ pc' = pc
                /\ tasks'[i].state = "done" ]_vars
    /\ [] ( \A j \in DOMAIN tasks :
              tasks[j].state = "cancelled"
              => \/ error.where = "loop"
                 \/ \E i \in DOMAIN tasks : tasks[i].failure = "other" )

\* C4 witness: one probe has resolved as dead while its sibling is still
\* waiting for its response.
C4_Witness ==
    /\ pc = "gather"
    /\ \E i, j \in DOMAIN tasks :
         /\ i \in DeadTasks
         /\ tasks[i].state = "done"
         /\ tasks[j].state = "requesting"

\* C5: when every probe got a response or ended with an enumerated network
\* failure, the run completes: once the gather is over the run is done and
\* the output file holds exactly the alive proxies, none when all are dead.
C5_NetworkFailuresRecovered ==
    (/\ tasks /= << >>
     /\ pc \notin { "loop", "gather" }
     /\ error.where /= "loop"
     /\ \A i \in DOMAIN tasks : i \in AliveTasks \cup DeadTasks)
    => /\ pc = "done"
       /\ outputFile /= None
       /\ Len(outputFile) = Cardinality(AliveTasks)
       /\ RankedTasks = AliveTasks

\* C6: a probe in which an error other than the enumerated network failures
\* was raised has not returned a dead outcome: the task raised, main is still
\* in the gather or has failed, and no file has been written; when main
\* failed in the gather, it failed with the exception of a task.
C6_OtherErrorsPropagate ==
    /\ \A i \in DOMAIN tasks :
         tasks[i].failure = "other"
         => /\ tasks[i].state = "raised"
            /\ pc \in { "gather", "failed" }
            /\ closed => pc = "failed"
            /\ outputFile = None
            /\ ~inputWritten
            /\ results = << >>
    /\ (pc = "failed" /\ error.where = "gather")
         => \E i \in DOMAIN tasks :
              /\ tasks[i].state = "raised"
              /\ tasks[i].failure = "other"
              /\ error.exc = tasks[i].exc

\* C6 witness: the request of the second probe raised ClientOSError after the
\* first probe returned alive; the run failed with it and wrote nothing.
C6_Witness ==
    /\ closed
    /\ pc = "failed"
    /\ error = [ exc |-> "ClientOSError", where |-> "gather" ]
    /\ Len(tasks) = 2
    /\ tasks[1].alive /\ tasks[1].state = "done"
    /\ tasks[2].exc = "ClientOSError"
    /\ outputFile = None

\* a line the configured decoding refuses
Undecodable(line) == ~DecodeLine(line, cfg.read_template, cfg.default_protocol).ok

\* C7: a line that cannot be decoded is not skipped: when the loop takes it,
\* main fails there with an error, no task is made for it, no later line is
\* taken and the output file is not opened.
C7_UndecodableLineFails ==
    [][ \A line \in proxies :
          (iterated' = Append(iterated, line) /\ Undecodable(line))
          => /\ pc' = "failed"
             /\ error'.where = "loop"
             /\ error'.exc \in { "ValueError", "AssertionError", "re.error" }
             /\ tasks' = tasks
             /\ outputFile' = None ]_vars
    /\ [] ( (pc = "failed" /\ error.where = "loop")
              => /\ outputFile = None
                 /\ ~inputWritten
                 /\ \A i \in DOMAIN tasks : tasks[i].raw /= iterated[Len(iterated)] )
    /\ [] ( pc \in { "gather", "done" } => error.where /= "loop" )

\* C7 witness: the second line taken could not be decoded, after a task was
\* made for the first; the run failed with ValueError and wrote nothing.
C7_Witness ==
    /\ pc = "failed"
    /\ error = [ exc |-> "ValueError", where |-> "loop" ]
    /\ Len(iterated) = 2
    /\ Len(tasks) = 1
    /\ Undecodable(iterated[2])
    /\ closed
    /\ outputFile = None

\* a read template is configured and lacks 'ip' or 'port'
BadReadTemplate ==
    /\ Truthy(cfg.read_template)
    /\ \/ FindFrom(cfg.read_template, << "i", "p" >>, 1) = 0
       \/ FindFrom(cfg.read_template, << "p", "o", "r", "t" >>, 1) = 0

\* C8: with a read template that lacks 'ip' or 'port' the first iteration
\* of the loop fails with the assertion: no task is ever created, no request
\* issued, no file written, for every input file.
C8_BadTemplateFailsFirst ==
    BadReadTemplate
    => /\ tasks = << >>
       /\ finished = << >>
       /\ pc \in { "start", "loop", "failed" }
       /\ Len(iterated) <= 1
       /\ iterated /= << >> => (pc = "failed" /\ error = [ exc |-> "AssertionError",
                                                            where |-> "loop" ])
       /\ outputFile = None
       /\ ~inputWritten

\* C8 witness: the template 'ip' with a file of two distinct lines: the run
\* has failed and ended with no task.
C8_Witness ==
    /\ BadReadTemplate
    /\ Cardinality(proxies) = 2
    /\ pc = "failed"
    /\ closed
    /\ tasks = << >>

\* C9: no two tasks are made for the same raw line, every task is made for
\* a line of the input file, and once the loop is over every distinct line of
\* the input file has its task.
C9_OneTaskPerDistinctLine ==
    /\ \A i, j \in DOMAIN tasks : tasks[i].raw = tasks[j].raw => i = j
    /\ { tasks[i].raw : i \in DOMAIN tasks } \subseteq Range(inputFile)
    /\ (pc \in { "gather", "done" } \/ error.where \in { "gather", "persist" })
         => { tasks[i].raw : i \in DOMAIN tasks } = Range(inputFile)

\* C9 witness: the file holds the same line twice and the loop is over with
\* one task, which is running.
C9_Witness ==
    /\ Len(inputFile) = 2
    /\ inputFile[1] = inputFile[2]
    /\ ~inputWritten
    /\ pc = "gather"
    /\ Len(tasks) = 1
    /\ tasks[1].state = "requesting"

\* C10: the gather returns the outcomes in the order the tasks were
\* dispatched, whatever the order the probes finished in, and two ranked
\* outcomes of equal latency keep that order.
C10_RankingStable ==
    /\ \A i \in DOMAIN tasks : tasks[i].raw = iterated[i]
    /\ \A i \in DOMAIN results :
         /\ results[i].task = i
         /\ results[i].proxy = tasks[i].proxy
         /\ results[i].response_time = tasks[i].response_time
    /\ \A k, j \in DOMAIN sorted_alive_proxies :
         (k < j /\ sorted_alive_proxies[k].response_time
                     = sorted_alive_proxies[j].response_time)
         => sorted_alive_proxies[k].task < sorted_alive_proxies[j].task

\* C10 witness: two alive probes of equal latency, the second dispatched the
\* first to finish; the output lists them in dispatch order.
C10_Witness ==
    /\ pc = "done"
    /\ finished = << 2, 1 >>
    /\ Len(sorted_alive_proxies) = 2
    /\ sorted_alive_proxies[1].response_time = sorted_alive_proxies[2].response_time
    /\ outputFile = << tasks[1].proxy, tasks[2].proxy >>

\* C11: whenever a line decodes with a template, encoding the url with the
\* same template succeeds, and decoding the string it gives returns the same
\* url.
C11_RoundTrip ==
    /\ (call.url.ok /\ call.string /= NotCalled) => call.string.ok
    /\ call.again /= NotCalled => call.again = call.url

\* C12: main writes the input file only when remove_duplicates is set.  With
\* the flag set, a run that reaches its end writes it, with exactly the
\* distinct lines it held, each once; with the flag unset no step of any run
\* writes it or changes it.
C12_InputRewrittenOnlyOnFlag ==
    /\ [][ /\ (inputWritten' /= inputWritten \/ inputFile' /= inputFile)
              => (cfg.remove_duplicates /\ pc' = "done")
          /\ (inputWritten' /\ ~inputWritten)
              => /\ Range(inputFile') = Range(inputFile)
                 /\ Len(inputFile') = Cardinality(Range(inputFile)) ]_vars
    /\ [](cfg.remove_duplicates => (inputWritten <=> pc = "done"))
    /\ [](~cfg.remove_duplicates => ~inputWritten)

\* C12 witness: a run with the flag has ended and has written the two
\* distinct lines of the input file back.
C12_Witness ==
    /\ cfg.remove_duplicates
    /\ pc = "done"
    /\ inputWritten
    /\ Len(inputFile) = 2
    /\ Range(inputFile) = proxies

\* C13: the output file, once written, has one line per ranked proxy, in
\* ranked order: the proxy encoded with the write template when there is
\* one, else with the read template when there is one, else the proxy url
\* itself.  When main fails while it encodes, it is an encoding with the
\* template so chosen that raised, and the output file is not written.
C13_PersistFallback ==
    LET Line(k) ==
            IF Truthy(cfg.write_template)
            THEN get_proxy_string(sorted_alive_proxies[k].proxy, cfg.write_template)
            ELSE IF Truthy(cfg.read_template)
                 THEN get_proxy_string(sorted_alive_proxies[k].proxy, cfg.read_template)
                 ELSE Returned(sorted_alive_proxies[k].proxy)
    IN  /\ outputFile /= None
            => /\ Len(outputFile) = Len(sorted_alive_proxies)
               /\ \A k \in DOMAIN outputFile :
                    Line(k).ok /\ outputFile[k] = Line(k).value
        /\ (pc = "failed" /\ error.where = "persist")
            => /\ outputFile = None
               /\ \E k \in DOMAIN sorted_alive_proxies :
                    ~Line(k).ok /\ Line(k).exc = error.exc

\* C13 witness: both templates are set and differ, and a run has written a
\* proxy encoded with the write template, 'a:80'.
C13_Witness ==
    /\ pc = "done"
    /\ cfg.write_template = T_ip_port
    /\ cfg.read_template = T_protocol_ip_port
    /\ outputFile = << << "a", ":", "8", "0" >> >>

\* C14: get_proxy_string returns a string for every url get_proxy_url
\* returned; with the template 'ip:port' the string is the host of the url,
\* ':' and its port, whether the url has credentials or not.
C14_EncodeSucceeds ==
    call.string /= NotCalled
    => /\ call.string.ok
       /\ call.template = T_ip_port
           => LET netloc == urlparse(call.url.value).netloc
              IN  call.string.value
                    = UrlHostname(netloc) \o << ":" >> \o UrlPortText(netloc).value

\* C15: no two tasks are made for the same proxy url, and the output file
\* lists no proxy twice.
C15_OneTaskPerUrl ==
    /\ \A i, j \in DOMAIN tasks : tasks[i].proxy = tasks[j].proxy => i = j
    /\ outputFile /= None
        => \A k, j \in DOMAIN outputFile : outputFile[k] = outputFile[j] => k = j

\* C16: when the template matches a line and the match gives no protocol
\* (the template does not name it, or what it captured is empty),
\* get_proxy_url returns a url that begins with the default protocol if one
\* was passed, and raises only if none was.
C16_SchemeFallback ==
    LET regex == Search(RegexTemplate(call.template), call.proxy)
    IN  (call.url /= NotCalled /\ regex.ok /\ ~Truthy(regex.groups["protocol"]))
        => IF call.default_protocol /= None
           THEN /\ call.url.ok
                /\ LET head == call.default_protocol \o << ":", "/", "/" >>
                   IN  /\ Len(call.url.value) >= Len(head)
                       /\ SubSeq(call.url.value, 1, Len(head)) = head
           ELSE ~call.url.ok

\* C17: decoding the empty line raises, whatever the template (it names
\* 'ip' and 'port') and the default protocol; no url is returned for it.
C17_EmptyLineFails ==
    (call.proxy = << >> /\ call.url /= NotCalled) => ~call.url.ok

\* C18: a task holds an open session exactly while its request is under
\* way; a task that has returned, raised or been cancelled holds none, and
\* once asyncio.run has returned no session is open.
C18_SessionsReleased ==
    /\ \A i \in DOMAIN tasks :
         /\ tasks[i].session = "open" <=> tasks[i].state = "requesting"
         /\ tasks[i].state \in { "done", "raised", "cancelled" }
             => tasks[i].session /= "open"
         /\ tasks[i].state = "cancelled" => tasks[i].session = "closed"
         /\ (tasks[i].alive \/ tasks[i].failure = "network")
             => tasks[i].session = "closed"
    /\ closed => \A i \in DOMAIN tasks : tasks[i].session /= "open"

\* C18 witness: asyncio.run has returned after a request raised an exception
\* check_proxy does not catch and the other task was cancelled; both sessions
\* were opened and are closed.
C18_Witness ==
    /\ closed
    /\ Len(tasks) = 2
    /\ \E i, j \in DOMAIN tasks :
         /\ tasks[i].state = "raised" /\ tasks[i].failure = "other"
         /\ tasks[i].exc /= "ValueError" /\ tasks[i].session = "closed"
         /\ tasks[j].state = "cancelled" /\ tasks[j].session = "closed"

\* every line of the input file decodes
AllLinesDecode ==
    \A line \in Range(inputFile) :
        DecodeLine(line, cfg.read_template, cfg.default_protocol).ok

\* C19: a run on an input file whose lines all decode, in which every probe
\* ended with a response or with an enumerated failure such as the timeout,
\* has written the output file by the time asyncio.run returns.
C19_OutputWrittenAtEnd ==
    (/\ closed
     /\ AllLinesDecode
     /\ \A i \in DOMAIN tasks : tasks[i].state = "done")
    => outputFile /= None

\* C20 as stated: a task has taken a step only if every line of the input
\* file decoded; after a decode error the tasks already made stay as they
\* were created.
C20_AllOrNothing ==
    (\E i \in DOMAIN tasks : tasks[i].state /= "pending")
    => (AllLinesDecode /\ error.where /= "loop")

\* C20, amended: no task takes a step while main is in the for loop.  After
\* a decode error the tasks already made are not dropped unstarted: each
\* runs its first step (from_url raises, or the session is opened and the
\* request issued) and asyncio.run then cancels it; none gets a response or
\* a failure of its request, and neither file is written.
C20_NoStepBeforeLoopEnds ==
    /\ pc \in { "start", "loop" }
        => \A i \in DOMAIN tasks :
             tasks[i].state = "pending" /\ tasks[i].session = "none"
    /\ (pc = "failed" /\ error.where = "loop")
        => /\ outputFile = None /\ ~inputWritten
           /\ \A i \in DOMAIN tasks :
                /\ tasks[i].state \in { "pending", "requesting", "raised", "cancelled" }
                /\ ~tasks[i].alive /\ tasks[i].failure /= "network"
                /\ tasks[i].state = "raised" => tasks[i].session = "none"
                /\ closed => /\ tasks[i].state \in { "raised", "cancelled" }
                             /\ tasks[i].state = "cancelled"
                                 => tasks[i].session = "closed"

\* C20 witness: main failed on a line it could not decode after it had made
\* a task for another; that task opened its session, issued its request and
\* was cancelled when asyncio.run returned.
C20_Witness ==
    /\ closed
    /\ pc = "failed" /\ error.where = "loop"
    /\ Len(tasks) = 1
    /\ tasks[1].state = "cancelled"
    /\ tasks[1].session = "closed"

=============================================================================
